---- MODULE Spec2Model ----
(***************************************************************************)
(* A model of the FedRAMP baseline comparison tool: ControlID parsing,     *)
(* display and ordering (control_id.rs), sheet parsing, baseline merging,  *)
(* the parameter variation decision and the row-span table layout          *)
(* (main.rs).                                                              *)
(*                                                                         *)
(* Text is a sequence of one-character strings, Option<T> is a sequence of *)
(* length 0 (None) or 1 (Some), a HashMap is a function whose DOMAIN is    *)
(* its key set.                                                            *)
(***************************************************************************)
EXTENDS Integers, Sequences, FiniteSets, TLC

VARIABLES pc, panicked, workbook, sheet, parsed, baselines, merged, tabs, control, distinct

vars == <<pc, panicked, workbook, sheet, parsed, baselines, merged, tabs, control, distinct>>

None == <<>>

Some(x) == <<x>>

IsSome(o) == Len(o) = 1

Unwrap(o) == o[1]

(***************************************************************************)
(* Characters and strings.                                                 *)
(***************************************************************************)
\* The printable ASCII characters from 32 to 126 (three of them by name).
Printable ==
    <<" ", "!", "dquote", "#", "$", "%", "&", "'", "(", ")", "*", "+", ",", "-", ".", "/",
      "0", "1", "2", "3", "4", "5", "6", "7", "8", "9", ":", ";", "<", "=", ">", "?",
      "@", "A", "B", "C", "D", "E", "F", "G", "H", "I", "J", "K", "L", "M", "N", "O",
      "P", "Q", "R", "S", "T", "U", "V", "W", "X", "Y", "Z", "[", "backslash", "]", "^", "_",
      "backtick", "a", "b", "c", "d", "e", "f", "g", "h", "i", "j", "k", "l", "m", "n", "o",
      "p", "q", "r", "s", "t", "u", "v", "w", "x", "y", "z", "{", "|", "}", "~">>

\* The byte value of a character: String's Ord compares bytes.
CharCode(c) ==
    IF c = "\t" THEN 9
    ELSE IF c = "\n" THEN 10
    ELSE 31 + (CHOOSE i \in 1..Len(Printable) : Printable[i] = c)

\* \s of the regex crate and char::is_whitespace, over the characters used.
Whitespace == {" ", "\t", "\n"}

DigitChars == <<"0", "1", "2", "3", "4", "5", "6", "7", "8", "9">>

IsDigit(c) == \E i \in 1..10 : DigitChars[i] = c

DigitVal(c) == (CHOOSE i \in 1..10 : DigitChars[i] = c) - 1

\* \w of the regex crate: letters, digits and the underscore.
IsWord(c) == c \notin Whitespace /\ LET k == CharCode(c) IN
    \/ k >= 48 /\ k <= 57
    \/ k >= 65 /\ k <= 90
    \/ k >= 97 /\ k <= 122
    \/ k = 95

\* Ordering of String: lexicographic on bytes, a proper prefix first.
RECURSIVE StrLess(_, _)
StrLess(a, b) ==
    IF b = <<>> THEN FALSE
    ELSE IF a = <<>> THEN TRUE
    ELSE IF Head(a) = Head(b) THEN StrLess(Tail(a), Tail(b))
    ELSE CharCode(Head(a)) < CharCode(Head(b))

RECURSIVE TrimStart(_)
TrimStart(s) ==
    IF s # <<>> /\ Head(s) \in Whitespace THEN TrimStart(Tail(s)) ELSE s

RECURSIVE TrimEnd(_)
TrimEnd(s) ==
    IF s # <<>> /\ s[Len(s)] \in Whitespace THEN TrimEnd(SubSeq(s, 1, Len(s) - 1)) ELSE s

\* str::trim
Trim(s) == TrimEnd(TrimStart(s))

\* regex!(r"\s+").replace_all(s, " "): every maximal run of whitespace becomes
\* one space; nothing is removed at the ends.
RECURSIVE ReplaceWs(_)
ReplaceWs(s) ==
    IF s = <<>> THEN <<>>
    ELSE IF Head(s) \in Whitespace THEN <<" ">> \o ReplaceWs(TrimStart(s))
    ELSE <<Head(s)>> \o ReplaceWs(Tail(s))

StartsWith(s, p) == Len(s) >= Len(p) /\ SubSeq(s, 1, Len(p)) = p

Contains(s, p) == \E i \in 1..(Len(s) + 1) :
    i + Len(p) - 1 <= Len(s) /\ SubSeq(s, i, i + Len(p) - 1) = p

\* str::replace: the non-overlapping matches of from, left to right.
RECURSIVE StrReplace(_, _, _)
StrReplace(s, from, to) ==
    IF s = <<>> THEN <<>>
    ELSE IF StartsWith(s, from)
         THEN to \o StrReplace(SubSeq(s, Len(from) + 1, Len(s)), from, to)
         ELSE <<Head(s)>> \o StrReplace(Tail(s), from, to)

\* The decimal text of a number (Display of u8, usize).
RECURSIVE Decimal(_)
Decimal(n) ==
    IF n < 10 THEN <<DigitChars[n + 1]>>
    ELSE Decimal(n \div 10) \o <<DigitChars[(n % 10) + 1]>>

\* The value of a run of decimal digits.
RECURSIVE DecimalValue(_)
DecimalValue(d) ==
    IF d = <<>> THEN 0
    ELSE 10 * DecimalValue(SubSeq(d, 1, Len(d) - 1)) + DigitVal(d[Len(d)])

(***************************************************************************)
(* control_id.rs                                                           *)
(***************************************************************************)
U8Max == 255

ControlID_default == [subject |-> <<>>, number |-> 0, subnumber |-> 0]

ControlID_is_empty(id) == id.subject = <<>> \/ id.number = 0

ControlID_to_string(id) ==
    IF id.subnumber > 0
    THEN id.subject \o <<"-">> \o Decimal(id.number) \o <<" ", "(">>
         \o Decimal(id.subnumber) \o <<")">>
    ELSE id.subject \o <<"-">> \o Decimal(id.number)

ControlID_lt_text(a, b) ==
    IF a.subject # b.subject THEN StrLess(a.subject, b.subject)
    ELSE IF a.number # b.number THEN StrLess(Decimal(a.number), Decimal(b.number))
    ELSE StrLess(Decimal(a.subnumber), Decimal(b.subnumber))

\* derive(Ord): subject, then number, then subnumber.
ControlID_lt(a, b) ==
    IF a.subject # b.subject THEN StrLess(a.subject, b.subject)
    ELSE IF a.number # b.number THEN a.number < b.number
    ELSE a.subnumber < b.subnumber

WordChars == {Printable[i] : i \in {x \in 1..Len(Printable) : IsWord(Printable[x])}}

DigitSet == {DigitChars[i] : i \in 1..10}

\* The end (exclusive) of the longest run of characters of the class from i.
RECURSIVE RunEnd(_, _, _)
RunEnd(s, i, class) ==
    IF i <= Len(s) /\ s[i] \in class THEN RunEnd(s, i + 1, class) ELSE i

\* (?<subject>\w+)-(?<number>\d+) matched at position i: the greedy \w+ must
\* end where the run of word characters ends, since "-" is no word character.
IdMatchAt(s, i) ==
    LET j == RunEnd(s, i, WordChars)
    IN  /\ j > i
        /\ j <= Len(s) /\ s[j] = "-"
        /\ RunEnd(s, j + 1, DigitSet) > j + 1

\* The optional group (?:\s+\((?<subnumber>\d+)\))? tried at position k:
\* the digits of the subnumber, or <<>> when the group does not take part.
SubnumberAt(s, k) ==
    LET m == RunEnd(s, k, Whitespace)
        n == RunEnd(s, m + 1, DigitSet)
    IN  IF /\ m > k
           /\ m <= Len(s) /\ s[m] = "("
           /\ n > m + 1
           /\ n <= Len(s) /\ s[n] = ")"
        THEN SubSeq(s, m + 1, n - 1)
        ELSE <<>>

\* FromStr for ControlID. The result is "err" (no match), "panic" (a digit
\* group that does not fit u8: parse::<u8>().unwrap()) or "ok" with the id.
ControlID_from_str(s) ==
    IF ~ \E i \in 1..Len(s) : IdMatchAt(s, i)
    THEN [kind |-> "err", id |-> ControlID_default]
    ELSE
        LET i == CHOOSE x \in 1..Len(s) :
                     IdMatchAt(s, x) /\ \A y \in 1..(x - 1) : ~IdMatchAt(s, y)
            j == RunEnd(s, i, WordChars)
            k == RunEnd(s, j + 1, DigitSet)
            number == DecimalValue(SubSeq(s, j + 1, k - 1))
            subnumber == DecimalValue(SubnumberAt(s, k))
        IN  IF number > U8Max \/ subnumber > U8Max
            THEN [kind |-> "panic", id |-> ControlID_default]
            ELSE [kind |-> "ok",
                  id |-> [subject |-> SubSeq(s, i, j - 1),
                          number |-> number, subnumber |-> subnumber]]

(***************************************************************************)
(* main.rs: Baselines, Parameters, Control                                 *)
(***************************************************************************)
Baselines == {"High", "Moderate", "Low"}

\* Baselines::iter() and EnumMap::values(): declaration order.
Baselines_iter == <<"High", "Moderate", "Low">>

Baselines_as_str(b) ==
    CASE b = "High" -> <<"H","i","g","h"," ","B","a","s","e","l","i","n","e">>
      [] b = "Moderate" -> <<"M","o","d","e","r","a","t","e"," ","B","a","s","e","l","i","n","e">>
      [] b = "Low" -> <<"L","o","w"," ","B","a","s","e","l","i","n","e">>

Baselines_short(b) ==
    CASE b = "High" -> <<"H","i","g","h">>
      [] b = "Moderate" -> <<"M","o","d","e","r","a","t","e">>
      [] b = "Low" -> <<"L","o","w">>

Parameters_default == [assignment |-> <<>>, additional |-> <<>>]

Parameters_flatten(p) ==
    [assignment |-> ReplaceWs(p.assignment), additional |-> ReplaceWs(p.additional)]

\* derive(Ord) for Parameters: assignment, then additional.
Parameters_lt(a, b) ==
    IF a.assignment # b.assignment THEN StrLess(a.assignment, b.assignment)
    ELSE StrLess(a.additional, b.additional)

\* Ord for Option<Parameters>: None first.
OptionParameters_lt(a, b) ==
    IF ~IsSome(a) THEN IsSome(b)
    ELSE IsSome(b) /\ Parameters_lt(Unwrap(a), Unwrap(b))

\* flat_parameters.sort(), as an insertion sort under Ord.
RECURSIVE InsertParameters(_, _)
InsertParameters(x, s) ==
    IF s = <<>> THEN <<x>>
    ELSE IF OptionParameters_lt(x, Head(s)) THEN <<x>> \o s
    ELSE <<Head(s)>> \o InsertParameters(x, Tail(s))

RECURSIVE SortParameters(_)
SortParameters(s) ==
    IF s = <<>> THEN <<>> ELSE InsertParameters(Head(s), SortParameters(Tail(s)))

\* Vec::dedup: consecutive equal elements are removed.
RECURSIVE Dedup(_)
Dedup(s) ==
    IF Len(s) <= 1 THEN s
    ELSE IF s[1] = s[2] THEN Dedup(Tail(s))
    ELSE <<s[1]>> \o Dedup(Tail(s))

\* self.parameters.values() in declaration order.
Control_parameter_values(c) == [i \in 1..3 |-> c.parameters[Baselines_iter[i]]]

Control_distinct_parameters(c) ==
    LET filtered == SelectSeq(Control_parameter_values(c), IsSome)
        flat == [i \in 1..Len(filtered) |->
                    IF IsSome(filtered[i])
                    THEN Some(Parameters_flatten(Unwrap(filtered[i])))
                    ELSE Some(Parameters_default)]
    IN  Len(Dedup(SortParameters(flat))) > 1

Control_without_baseline_blank(c, level) ==
    [c EXCEPT !.parameters[level] = Some(Parameters_default)]

Control_without_baseline(c, level) ==
    [c EXCEPT !.parameters[level] = None]

Control_default ==
    [id |-> ControlID_default, name |-> <<>>, description |-> <<>>,
     discussion |-> <<>>, parameters |-> [b \in Baselines |-> None]]

(***************************************************************************)
(* The variation decision on its own: any Control value, decided once.     *)
(***************************************************************************)
Foo == <<"F", "o", "o">>

Bar == <<"B", "a", "r">>

FooBar == <<"F", "o", "o", " ", "B", "a", "r">>

FooBarPadded == <<" ", " ", "F", "o", "o", " ", " ", " ", "B", "a", "r", " ">>

FooBarLines == <<"F", "o", "o", " ", "\n", " ", "B", "a", "r">>

AssignmentInputs == {<<>>, Foo, Bar, FooBar, FooBarPadded, FooBarLines}

AdditionalInputs == {<<>>, <<"x">>}

ParametersInputs ==
    {[assignment |-> a, additional |-> g] : a \in AssignmentInputs, g \in AdditionalInputs}

SlotInputs == {None} \cup {Some(p) : p \in ParametersInputs}

ControlInputs ==
    {[Control_default EXCEPT !.parameters = ps] : ps \in [Baselines -> SlotInputs]}

NoSheet == [headers |-> <<>>, rows |-> <<>>]

NoControls == <<>>

NoWorkbook == [b \in Baselines |-> None]

InitDistinct ==
    /\ pc = "input"
    /\ panicked = FALSE
    /\ workbook = NoWorkbook
    /\ sheet = NoSheet
    /\ parsed = NoControls
    /\ baselines = <<>>
    /\ merged = NoControls
    /\ tabs = <<>>
    /\ control \in ControlInputs
    /\ distinct = FALSE

DistinctParameters ==
    /\ pc = "input"
    /\ distinct' = Control_distinct_parameters(control)
    /\ pc' = "decided"
    /\ UNCHANGED <<panicked, workbook, sheet, parsed, baselines, merged, tabs, control>>

NextDistinct == DistinctParameters

SpecDistinct == InitDistinct /\ [][NextDistinct]_vars

\* Whitespace normalization as the claims read it: runs collapsed, and
\* leading and trailing whitespace not significant.
NormalizedText(s) == ReplaceWs(Trim(s))

NormalizedParameters(p) ==
    [assignment |-> NormalizedText(p.assignment), additional |-> NormalizedText(p.additional)]

PopulatedSlots(c) == {b \in Baselines : IsSome(c.parameters[b])}

C5_AbsentEqualsEmpty ==
    pc = "decided" =>
        \A b \in Baselines :
            ~IsSome(control.parameters[b]) =>
                Control_distinct_parameters(
                    [control EXCEPT !.parameters[b] = Some(Parameters_default)]) = distinct

(***************************************************************************)
(* main.rs: Controls::parse                                                *)
(*                                                                         *)
(* A sheet is its header row (row 1) and its data rows (rows 2 and on); a  *)
(* cell is the Option as_string() gives: None for an empty, boolean or     *)
(* error cell, Some(text) otherwise. Every row has the sheet's width.      *)
(***************************************************************************)
H_ID == <<"I", "D">>

H_ControlName == <<"C", "o", "n", "t", "r", "o", "l", " ", "N", "a", "m", "e">>

H_Description == <<"N", "I", "S", "T", " ", "C", "o", "n", "t", "r", "o", "l", " ", "D", "e", "s", "c", "r", "i", "p", "t", "i", "o", "n">>

H_Discussion == <<"N", "I", "S", "T", " ", "D", "i", "s", "c", "u", "s", "s", "i", "o", "n">>

H_Assignment == <<"A", "s", "s", "i", "g", "n", "m", "e", "n", "t", " ", "/", " ", "S", "e", "l", "e", "c", "t", "i", "o", "n">>

H_Additional == <<"A", "d", "d", "i", "t", "i", "o", "n", "a", "l">>

\* header_names: column -> the header text with whitespace runs collapsed
\* (a header cell that is no text gives the empty name).
HeaderNames(headers) ==
    [x \in 1..Len(headers) |->
        ReplaceWs(IF IsSome(headers[x]) THEN Unwrap(headers[x]) ELSE <<>>)]

\* value.parse::<ControlID>() panics inside from_str on a numeral beyond u8.
CellPanics(name, value) ==
    name = H_ID /\ ControlID_from_str(value).kind = "panic"

\* The match on the header name, for a cell that holds text.
RouteCell(c, name, value, baseline) ==
    IF name = H_ID
    THEN LET r == ControlID_from_str(value)
         IN  IF r.kind = "ok" THEN [c EXCEPT !.id = r.id] ELSE c
    ELSE IF name = H_ControlName THEN [c EXCEPT !.name = Trim(value)]
    ELSE IF StartsWith(name, H_Description) THEN [c EXCEPT !.description = Trim(value)]
    ELSE IF StartsWith(name, H_Discussion) THEN [c EXCEPT !.discussion = Trim(value)]
    ELSE IF Contains(name, H_Assignment)
    THEN [c EXCEPT !.parameters[baseline] =
             Some([Unwrap(@) EXCEPT !.assignment = Trim(value)])]
    ELSE IF Contains(name, H_Additional)
    THEN [c EXCEPT !.parameters[baseline] =
             Some([Unwrap(@) EXCEPT !.additional = Trim(value)])]
    ELSE c

\* The loop over the cells of one row, from cell i on.
RECURSIVE ParseCells(_, _, _, _, _)
ParseCells(c, header_names, row, i, baseline) ==
    IF i > Len(row) THEN [panic |-> FALSE, control |-> c]
    ELSE IF i \in DOMAIN header_names /\ IsSome(row[i])
    THEN IF CellPanics(header_names[i], Unwrap(row[i]))
         THEN [panic |-> TRUE, control |-> c]
         ELSE ParseCells(RouteCell(c, header_names[i], Unwrap(row[i]), baseline),
                         header_names, row, i + 1, baseline)
    ELSE ParseCells(c, header_names, row, i + 1, baseline)

\* The candidate record of one row.
ParseRow(header_names, row, baseline) ==
    ParseCells([Control_default EXCEPT !.parameters[baseline] = Some(Parameters_default)],
               header_names, row, 1, baseline)

HashMap_insert_keep_first(m, k, v) ==
    [x \in DOMAIN m \cup {k} |-> IF x \in DOMAIN m THEN m[x] ELSE v]

\* HashMap::insert: the value of an existing key is replaced.
HashMap_insert(m, k, v) ==
    [x \in DOMAIN m \cup {k} |-> IF x = k THEN v ELSE m[x]]

\* The loop over the data rows.
RECURSIVE ParseRows(_, _, _, _)
ParseRows(c, header_names, rows, baseline) ==
    IF rows = <<>> THEN [panic |-> FALSE, controls |-> c]
    ELSE LET r == ParseRow(header_names, Head(rows), baseline)
         IN  IF r.panic THEN [panic |-> TRUE, controls |-> c]
             ELSE ParseRows(
                     IF ~ControlID_is_empty(r.control.id)
                     THEN HashMap_insert(c, r.control.id, r.control)
                     ELSE c,
                     header_names, Tail(rows), baseline)

Controls_parse(sh, baseline) ==
    ParseRows(NoControls, HeaderNames(sh.headers), sh.rows, baseline)

(***************************************************************************)
(* Parsing one sheet.                                                      *)
(***************************************************************************)
MaxRows == 3

\* Two sheet layouts: the header cells, and the cells a data row may hold in
\* each column.
LayoutA ==
    <<[header |-> Some(<<"I", "D">>),
       cells |-> {None, Some(<<"A", "C", "-", "1">>), Some(<<" ", "A", "C", "-", "2", " ", "(", "1", ")", " ">>), Some(<<"A", "C", "-", "0">>),
                  Some(<<"A", "C", "-", "3", "0", "0">>)}],
      [header |-> Some(<<"C", "o", "n", "t", "r", "o", "l", " ", "\n", " ", "N", "a", "m", "e">>),
       cells |-> {Some(<<" ", "P", "o", "l", "i", "c", "y", " ">>), Some(<<"A", "u", "d", "i", "t">>)}]>>

LayoutB ==
    <<[header |-> Some(<<"S", "O", "R", "T", " ", "I", "D">>),
       cells |-> {Some(<<"A", "C", "-", "0", "9">>)}],
      [header |-> Some(<<"I", "D">>),
       cells |-> {Some(<<"n", "/", "a">>), Some(<<"s", "e", "e", " ", "A", "U", "-", "2", " ", "(", "1", ")">>), Some(<<"A", "U", "-", "2", "(", "1", ")">>)}],
      [header |-> Some(<<"N", "I", "S", "T", " ", "C", "o", "n", "t", "r", "o", "l", " ", "D", "e", "s", "c", "r", "i", "p", "t", "i", "o", "n", " ", "(", "F", "r", "o", "m", " ", "N", "I", "S", "T", " ", "S", "P", " ", "8", "0", "0", "-", "5", "3", "r", "5", ")">>),
       cells |-> {Some(<<"d">>)}],
      [header |-> Some(<<"N", "I", "S", "T", " ", "D", "i", "s", "c", "u", "s", "s", "i", "o", "n", "\n", "(", "F", "r", "o", "m", " ", "N", "I", "S", "T", " ", "S", "P", " ", "8", "0", "0", "-", "5", "3", "r", "5", ")">>),
       cells |-> {Some(<<"n">>)}],
      [header |-> Some(<<"F", "e", "d", "R", "A", "M", "P", " ", "A", "s", "s", "i", "g", "n", "m", "e", "n", "t", " ", "/", " ", "S", "e", "l", "e", "c", "t", "i", "o", "n", " ", "P", "a", "r", "a", "m", "e", "t", "e", "r", "s">>),
       cells |-> {None, Some(<<" ", "a", " ", " ", "b", " ">>)}],
      [header |-> Some(<<"A", "d", "d", "i", "t", "i", "o", "n", "a", "l", " ", "F", "e", "d", "R", "A", "M", "P", " ", "R", "e", "q", "u", "i", "r", "e", "m", "e", "n", "t", "s">>),
       cells |-> {Some(<<"g", " ">>)}],
      [header |-> None,
       cells |-> {Some(<<"A", "C", "-", "7">>)}]>>

RECURSIVE LayoutRows(_)
LayoutRows(layout) ==
    IF layout = <<>> THEN {<<>>}
    ELSE {<<c>> \o r : c \in Head(layout).cells, r \in LayoutRows(Tail(layout))}

RowsUpTo(layout, n) == UNION {[1..k -> LayoutRows(layout)] : k \in 0..n}

LayoutHeaders(layout) == [x \in 1..Len(layout) |-> layout[x].header]

SheetInputs ==
    {[tab |-> "High", headers |-> LayoutHeaders(LayoutA), rows |-> rows] :
        rows \in RowsUpTo(LayoutA, MaxRows)}
    \cup
    {[tab |-> b, headers |-> LayoutHeaders(LayoutB), rows |-> rows] :
        b \in Baselines, rows \in RowsUpTo(LayoutB, MaxRows)}

InitParse ==
    /\ pc = "sheet"
    /\ panicked = FALSE
    /\ workbook = NoWorkbook
    /\ sheet \in SheetInputs
    /\ parsed = NoControls
    /\ baselines = <<>>
    /\ merged = NoControls
    /\ tabs = <<>>
    /\ control = Control_default
    /\ distinct = FALSE

\* Controls::parse(sheet, baseline) as get_baselines calls it; a panic ends
\* the program.
Parse ==
    /\ pc = "sheet"
    /\ LET r == Controls_parse(sheet, sheet.tab)
       IN  IF r.panic
           THEN /\ panicked' = TRUE
                /\ pc' = "aborted"
                /\ UNCHANGED parsed
           ELSE /\ parsed' = r.controls
                /\ pc' = "parsed"
                /\ UNCHANGED panicked
    /\ UNCHANGED <<workbook, sheet, baselines, merged, tabs, control, distinct>>

NextParse == Parse

SpecParse == InitParse /\ [][NextParse]_vars

\* The records the rows of the sheet build, row by row.
RowRecords ==
    [i \in 1..Len(sheet.rows) |->
        ParseRow(HeaderNames(sheet.headers), sheet.rows[i], sheet.tab).control]

\* The map that holds, for each non-empty identifier some row produces, the
\* record of the last row producing it.
LastRowWins ==
    LET recs == RowRecords
        ids == {recs[i].id : i \in DOMAIN recs}
        last(id) == CHOOSE i \in DOMAIN recs :
                        recs[i].id = id /\ \A j \in DOMAIN recs : j > i => recs[j].id # id
    IN  [id \in {x \in ids : ~ControlID_is_empty(x)} |-> recs[last(id)]]

\* An ID cell whose numeral does not fit u8.
SomeIdOutOfRange ==
    LET names == HeaderNames(sheet.headers)
    IN  \E i \in 1..Len(sheet.rows) : \E x \in 1..Len(sheet.headers) :
            /\ names[x] = H_ID
            /\ IsSome(sheet.rows[i][x])
            /\ ControlID_from_str(Unwrap(sheet.rows[i][x])).kind = "panic"

GetBaselinesMap(wb) ==
    [b \in {x \in Baselines : IsSome(wb[x])} |-> Unwrap(wb[b])]

\* all_controls: the identifiers of every baseline present.
AllControls(bl) == UNION {DOMAIN bl[b] : b \in DOMAIN bl}

\* The body of the merge loop panics on baselines[&Baselines::High] or
\* baselines[&level] for a baseline without entry, and on the unwrap of
\* the High record.
MergePanics(bl, id) ==
    \/ "High" \notin DOMAIN bl
    \/ id \notin DOMAIN bl["High"]
    \/ \E level \in Baselines : level \notin DOMAIN bl

MergeOne_first_found(bl, id) ==
    LET src == IF id \in DOMAIN bl["Low"] THEN bl["Low"][id]
               ELSE IF id \in DOMAIN bl["Moderate"] THEN bl["Moderate"][id]
               ELSE bl["High"][id]
    IN  [id |-> src.id,
         name |-> src.name,
         description |-> src.description,
         discussion |-> src.discussion,
         parameters |->
             [level \in Baselines |->
                 IF id \in DOMAIN bl[level]
                 THEN bl[level][id].parameters[level]
                 ELSE None]]

\* The merged record of one identifier.
MergeOne(bl, id) ==
    LET high == bl["High"][id]
    IN  [id |-> high.id,
         name |-> high.name,
         description |-> high.description,
         discussion |-> high.discussion,
         parameters |->
             [level \in Baselines |->
                 IF id \in DOMAIN bl[level]
                 THEN bl[level][id].parameters[level]
                 ELSE Control_default.parameters[level]]]

\* The loop runs over a HashSet in no fixed order; a panic on any identifier
\* ends the program whichever comes first.
merge_controls(bl) ==
    IF \E id \in AllControls(bl) : MergePanics(bl, id)
    THEN [panic |-> TRUE, controls |-> NoControls]
    ELSE [panic |-> FALSE, controls |-> [id \in AllControls(bl) |-> MergeOne(bl, id)]]

Controls_without_baseline(controls, level) ==
    [k \in DOMAIN controls |-> Control_without_baseline(controls[k], level)]

\* ids.sort(), as an insertion sort under Ord for ControlID.
RECURSIVE InsertId(_, _)
InsertId(x, s) ==
    IF s = <<>> THEN <<x>>
    ELSE IF ControlID_lt(x, Head(s)) THEN <<x>> \o s
    ELSE <<Head(s)>> \o InsertId(x, Tail(s))

RECURSIVE SortIds(_)
SortIds(s) == IF s = <<>> THEN <<>> ELSE InsertId(Head(s), SortIds(Tail(s)))

\* The glyph U+2713 of the source, by name.
Tick == <<"tick">>

TickIfPresent(c, level) == IF IsSome(c.parameters[level]) THEN Tick ELSE <<>>

\* control.parameters.len(): an EnumMap has one slot per variant.
ParametersLen == Cardinality(Baselines)

Rowspan(has_parameter_rows) == IF has_parameter_rows THEN 1 + ParametersLen ELSE 1

\* TableCell::new(Data).with_raw(content).with_attributes([("rowspan", rowspan)])
SharedCell(content, rowspan) == [content |-> content, rowspan |-> Some(rowspan)]

\* TableCell::default().with_raw(content)
PlainCell(content) == [content |-> content, rowspan |-> None]

\* The row of class "shared" of one control.
SharedRow(id, c) ==
    LET has_parameter_rows == Control_distinct_parameters(c)
        rowspan == Decimal(Rowspan(has_parameter_rows))
        first == Control_parameter_values(c)[1]
    IN  [class |-> <<"s", "h", "a", "r", "e", "d">>,
         cells |->
            <<SharedCell(ControlID_to_string(id), rowspan),
              SharedCell(TickIfPresent(c, "High"), rowspan),
              SharedCell(TickIfPresent(c, "Moderate"), rowspan),
              SharedCell(TickIfPresent(c, "Low"), rowspan),
              SharedCell(StrReplace(c.name, <<" ", "|", " ">>, <<"\n">>), rowspan),
              SharedCell(c.description, rowspan),
              SharedCell(c.discussion, rowspan)>>
            \o (IF ~has_parameter_rows
                THEN <<SharedCell(<<>>, rowspan)>>
                     \o (IF IsSome(first)
                         THEN <<SharedCell(Unwrap(first).assignment, rowspan),
                                SharedCell(Unwrap(first).additional, rowspan)>>
                         ELSE <<SharedCell(<<>>, rowspan), SharedCell(<<>>, rowspan)>>)
                ELSE <<>>)]

\* The row of class "parameters <level>" of one control and baseline.
ParameterRow(c, level) ==
    [class |-> <<"p", "a", "r", "a", "m", "e", "t", "e", "r", "s", " ">> \o Baselines_short(level),
     cells |->
        IF IsSome(c.parameters[level])
        THEN <<PlainCell(Baselines_short(level)),
               PlainCell(Unwrap(c.parameters[level]).assignment),
               PlainCell(Unwrap(c.parameters[level]).additional)>>
        ELSE <<>>]

ParameterRows_populated_only(c) ==
    LET present == SelectSeq(Baselines_iter, LAMBDA level : IsSome(c.parameters[level]))
    IN  [i \in 1..Len(present) |-> ParameterRow(c, present[i])]

\* for level in Baselines::iter(): one row per baseline.
ParameterRows(c) ==
    [i \in 1..Len(Baselines_iter) |-> ParameterRow(c, Baselines_iter[i])]

\* The rows one control adds to the table body.
ControlRows(id, c) ==
    <<SharedRow(id, c)>>
    \o (IF Control_distinct_parameters(c) THEN ParameterRows(c) ELSE <<>>)

RECURSIVE BodyRows(_, _)
BodyRows(controls, ids) ==
    IF ids = <<>> THEN <<>>
    ELSE ControlRows(Head(ids), controls[Head(ids)]) \o BodyRows(controls, Tail(ids))

TableHeader ==
    <<<<"I", "D">>, <<"H">>, <<"M">>, <<"L">>, <<"N", "a", "m", "e">>, <<"D", "e", "s", "c", "r", "i", "p", "t", "i", "o", "n">>, <<"D", "i", "s", "c", "u", "s", "s", "i", "o", "n">>,
      <<"L", "e", "v", "e", "l">>, <<"A", "s", "s", "i", "g", "n", "m", "e", "n", "t">>, <<"A", "d", "d", "i", "t", "i", "o", "n", "a", "l", " ", "g", "u", "i", "d", "a", "n", "c", "e">>>>

\* tabulate_controls; keys is controls.controls.keys() in the order the
\* HashMap happens to iterate.
tabulate_controls(controls, keys) ==
    [header |-> TableHeader, body |-> BodyRows(controls, SortIds(keys))]

\* The orders a HashMap may iterate its keys in.
KeyOrders(controls) ==
    {order \in [1..Cardinality(DOMAIN controls) -> DOMAIN controls] :
        \A i, j \in DOMAIN order : i # j => order[i] # order[j]}

(***************************************************************************)
(* main: the workbook's tabs as parsed, merged, and laid out in the three  *)
(* views.                                                                  *)
(***************************************************************************)
MaxControls == 1

MaxOrdered == 3

IdPool ==
    <<[subject |-> <<"A", "C">>, number |-> 2, subnumber |-> 0],
      [subject |-> <<"A", "C">>, number |-> 10, subnumber |-> 0],
      [subject |-> <<"A", "C">>, number |-> 2, subnumber |-> 1],
      [subject |-> <<"A", "U">>, number |-> 1, subnumber |-> 0],
      [subject |-> <<"A", "C">>, number |-> 1, subnumber |-> 0],
      [subject |-> <<"A", "T">>, number |-> 3, subnumber |-> 12]>>

\* The texts a row of a tab may carry, as parse stores them (trimmed).
Variants ==
    <<[name |-> <<"P", "o", "l", "i", "c", "y", " ", "|", " ", "P", "r", "o", "c", "e", "d", "u", "r", "e", "s">>, description |-> <<"d", "1">>, discussion |-> <<"n", "1">>,
       assignment |-> <<"a", " ", "b">>, additional |-> <<"g">>],
      [name |-> <<>>, description |-> <<>>, discussion |-> <<>>,
       assignment |-> <<>>, additional |-> <<>>],
      [name |-> <<"A", "u", "d", "i", "t">>, description |-> <<"d", "1">>, discussion |-> <<"n", "3">>,
       assignment |-> <<"a", " ", "\n", " ", "b">>, additional |-> <<"g">>]>>

\* The record Controls::parse(sheet, b) stores for a row with these texts.
ParsedControl(id, b, v) ==
    [id |-> id,
     name |-> Variants[v].name,
     description |-> Variants[v].description,
     discussion |-> Variants[v].discussion,
     parameters |->
        [level \in Baselines |->
            IF level = b
            THEN Some([assignment |-> Variants[v].assignment,
                       additional |-> Variants[v].additional])
            ELSE None]]

Min(a, b) == IF a < b THEN a ELSE b

RecordIds == {IdPool[i] : i \in 1..Min(MaxControls, Len(IdPool))}

\* What parse may return for tab b over the identifiers of RecordIds.
ParsedMaps(b) ==
    UNION {{[id \in S |-> ParsedControl(id, b, f[id])] : f \in [S -> DOMAIN Variants]} :
            S \in SUBSET RecordIds}

TabChoices(b) == {None} \cup {Some(m) : m \in ParsedMaps(b)}

\* Workbooks with any tab missing and any texts, over few identifiers.
RecordWorkbooks ==
    {[b \in Baselines |-> IF b = "High" THEN h ELSE IF b = "Moderate" THEN m ELSE l] :
        h \in TabChoices("High"), m \in TabChoices("Moderate"), l \in TabChoices("Low")}

\* Which tabs hold a control, and with which texts (0: no row).
Profiles ==
    {[High |-> 1, Moderate |-> 1, Low |-> 1],
     [High |-> 1, Moderate |-> 2, Low |-> 0],
     [High |-> 0, Moderate |-> 2, Low |-> 2]}

\* Workbooks with all three tabs, over more identifiers.
OrderWorkbooks ==
    UNION {{[b \in Baselines |->
                Some([id \in {x \in S : prof[x][b] # 0} |-> ParsedControl(id, b, prof[id][b])])] :
              prof \in [S -> Profiles]} :
            S \in {T \in SUBSET {IdPool[i] : i \in DOMAIN IdPool} : Cardinality(T) <= MaxOrdered}}

WorkbookInputs == RecordWorkbooks \cup OrderWorkbooks

Init ==
    /\ pc = "start"
    /\ panicked = FALSE
    /\ workbook \in WorkbookInputs
    /\ sheet = NoSheet
    /\ parsed = NoControls
    /\ baselines = <<>>
    /\ merged = NoControls
    /\ tabs = <<>>
    /\ control = Control_default
    /\ distinct = FALSE

GetBaselines ==
    /\ pc = "start"
    /\ baselines' = GetBaselinesMap(workbook)
    /\ pc' = "loaded"
    /\ UNCHANGED <<panicked, sheet, parsed, merged, tabs, control, distinct, workbook>>

MergeControls ==
    /\ pc = "loaded"
    /\ LET r == merge_controls(baselines)
       IN  IF r.panic
           THEN /\ panicked' = TRUE
                /\ pc' = "aborted"
                /\ UNCHANGED merged
           ELSE /\ merged' = r.controls
                /\ pc' = "merged"
                /\ UNCHANGED panicked
    /\ UNCHANGED <<sheet, parsed, baselines, tabs, control, distinct, workbook>>

\* add_tab(.., name, .., tabulate_controls(view)): the view laid out is kept
\* beside its table.
AddTab(name, view) ==
    \E keys \in KeyOrders(view) :
        tabs' = Append(tabs, [name |-> name, controls |-> view,
                              table |-> tabulate_controls(view, keys)])

TabAll ==
    /\ pc = "merged"
    /\ AddTab("all", merged)
    /\ pc' = "all"
    /\ UNCHANGED <<panicked, sheet, parsed, baselines, merged, control, distinct, workbook>>

TabHighModerate ==
    /\ pc = "all"
    /\ AddTab("high-moderate", Controls_without_baseline(merged, "Low"))
    /\ pc' = "high-moderate"
    /\ UNCHANGED <<panicked, sheet, parsed, baselines, merged, control, distinct, workbook>>

TabModerateLow ==
    /\ pc = "high-moderate"
    /\ AddTab("moderate-low", Controls_without_baseline(merged, "High"))
    /\ pc' = "done"
    /\ UNCHANGED <<panicked, sheet, parsed, baselines, merged, control, distinct, workbook>>

Next ==
    \/ GetBaselines
    \/ MergeControls
    \/ TabAll
    \/ TabHighModerate
    \/ TabModerateLow

Spec == Init /\ [][Next]_vars

(***************************************************************************)
(* Properties of the merge.                                                *)
(***************************************************************************)
Merged == pc \in {"merged", "all", "high-moderate", "done"}

MergeEnded == Merged \/ pc = "aborted"

\* C1: for any three per-baseline maps the merge does not abort and returns
\* a map whose keys are the union of the three key sets, a key absent from
\* High included, with empty name, description and discussion.
C1_MergeCoversUnion ==
    (MergeEnded /\ DOMAIN baselines = Baselines) =>
        /\ ~panicked
        /\ DOMAIN merged = AllControls(baselines)
        /\ \A id \in DOMAIN merged :
              id \notin DOMAIN baselines["High"] =>
                  /\ merged[id].name = <<>>
                  /\ merged[id].description = <<>>
                  /\ merged[id].discussion = <<>>

\* C2: for every identifier with a High record, the merged record's name,
\* description and discussion are the High record's, and each slot b is slot b
\* of baseline b's own record when that baseline holds the identifier, else
\* None.
C2_NarrativeFromHighSlotsFromOwn ==
    (Merged /\ "High" \in DOMAIN baselines) =>
        \A id \in DOMAIN baselines["High"] :
            /\ id \in DOMAIN merged
            /\ merged[id].name = baselines["High"][id].name
            /\ merged[id].description = baselines["High"][id].description
            /\ merged[id].discussion = baselines["High"][id].discussion
            /\ \A b \in Baselines :
                  merged[id].parameters[b] =
                      IF b \in DOMAIN baselines /\ id \in DOMAIN baselines[b]
                      THEN baselines[b][id].parameters[b]
                      ELSE None

\* A merged control whose Moderate row carries another name than its High
\* row and which has no Low row.
C2_Witness ==
    /\ Merged
    /\ \E id \in DOMAIN merged :
          /\ id \in DOMAIN baselines["Moderate"]
          /\ baselines["Moderate"][id].name # baselines["High"][id].name
          /\ id \notin DOMAIN baselines["Low"]
          /\ merged[id].parameters["Low"] = None
          /\ merged[id].name = baselines["High"][id].name

\* C3: a baseline whose tab is missing counts as an empty map: the merge does
\* not abort and returns the union of the other baselines' records, each with
\* the missing baseline's slot None.
C3_MissingTabIsEmptyMap ==
    (MergeEnded /\ DOMAIN baselines # Baselines) =>
        /\ ~panicked
        /\ DOMAIN merged = AllControls(baselines)
        /\ \A id \in DOMAIN merged : \A b \in Baselines \ DOMAIN baselines :
              merged[id].parameters[b] = None

(***************************************************************************)
(* Properties of the layout.                                               *)
(***************************************************************************)
SharedClass == <<"s", "h", "a", "r", "e", "d">>

ParametersClass(b) == <<"p", "a", "r", "a", "m", "e", "t", "e", "r", "s", " ">> \o Baselines_short(b)

\* The positions of the shared rows of a table body.
SharedAt(body) == {i \in DOMAIN body : body[i].class = SharedClass}

\* The shared row of an identifier: the one whose first cell is its text.
RowOfId(body, id) ==
    CHOOSE i \in SharedAt(body) : body[i].cells[1].content = ControlID_to_string(id)

\* The number of rows from shared row i up to the next shared row.
GroupLen(body, i) ==
    LET later == {j \in SharedAt(body) : j > i}
    IN  IF later = {} THEN Len(body) - i + 1
        ELSE (CHOOSE j \in later : \A k \in later : j <= k) - i

\* Every identifier of the view has exactly one shared row, and the body
\* starts with a shared row.
GroupsWellFormed(t) ==
    LET body == t.table.body
    IN  /\ Cardinality(SharedAt(body)) = Cardinality(DOMAIN t.controls)
        /\ \A id \in DOMAIN t.controls :
              \E i \in SharedAt(body) : body[i].cells[1].content = ControlID_to_string(id)
        /\ body # <<>> => 1 \in SharedAt(body)

\* C6: a record without distinct variation gets one row, every cell with
\* rowspan 1; a record with distinct variation gets four consecutive rows, a
\* shared row whose cells all have rowspan 4 and no parameter cells, then one
\* detail row per baseline in the order High, Moderate, Low, populated or
\* not; the rowspan is the number of rows of the record.
C6_RowGroups ==
    \A n \in DOMAIN tabs :
        LET t == tabs[n]
            body == t.table.body
        IN  /\ GroupsWellFormed(t)
            /\ \A id \in DOMAIN t.controls :
                  LET i == RowOfId(body, id)
                      len == GroupLen(body, i)
                      cells == body[i].cells
                  IN  /\ \A x \in DOMAIN cells : cells[x].rowspan = Some(Decimal(len))
                      /\ IF Control_distinct_parameters(t.controls[id])
                         THEN /\ len = 4
                              /\ Len(cells) = 7
                              /\ \A k \in 1..3 :
                                    body[i + k].class = ParametersClass(Baselines_iter[k])
                         ELSE /\ len = 1
                              /\ Len(cells) = 10

\* A table with a four-row record one of whose slots is unpopulated, and a
\* one-row record.
C6_Witness ==
    /\ pc = "done"
    /\ \E id1, id2 \in DOMAIN tabs[1].controls :
          LET body == tabs[1].table.body
          IN  /\ Control_distinct_parameters(tabs[1].controls[id1])
              /\ tabs[1].controls[id1].parameters["Low"] = None
              /\ GroupLen(body, RowOfId(body, id1)) = 4
              /\ body[RowOfId(body, id1) + 3].cells = <<>>
              /\ ~Control_distinct_parameters(tabs[1].controls[id2])
              /\ GroupLen(body, RowOfId(body, id2)) = 1

\* The first populated slot in the order High, Moderate, Low, or the empty
\* ParameterSet when no slot is populated.
FirstPopulated(c) ==
    IF IsSome(c.parameters["High"]) THEN Unwrap(c.parameters["High"])
    ELSE IF IsSome(c.parameters["Moderate"]) THEN Unwrap(c.parameters["Moderate"])
    ELSE IF IsSome(c.parameters["Low"]) THEN Unwrap(c.parameters["Low"])
    ELSE Parameters_default

\* C7: for a record without distinct variation the shared row's assignment
\* and additional cells show the raw text of the first populated slot in the
\* order High, Moderate, Low, also when the High slot is None.
C7_SharedRowShowsFirstPopulated ==
    \A n \in DOMAIN tabs :
        \A id \in DOMAIN tabs[n].controls :
            LET c == tabs[n].controls[id]
                row == tabs[n].table.body[RowOfId(tabs[n].table.body, id)]
            IN  ~Control_distinct_parameters(c) =>
                    /\ row.cells[9].content = FirstPopulated(c).assignment
                    /\ row.cells[10].content = FirstPopulated(c).additional

\* The column of the presence marker of a baseline.
MarkerColumn(b) == CASE b = "High" -> 2 [] b = "Moderate" -> 3 [] b = "Low" -> 4

\* without_baseline(b) keeps the identifiers, clears slot b and leaves the
\* other slots and the narrative fields as they were.
FilterFrame(orig, w, b) ==
    /\ DOMAIN w = DOMAIN orig
    /\ \A id \in DOMAIN w :
          /\ w[id].parameters[b] = None
          /\ \A l \in Baselines \ {b} : w[id].parameters[l] = orig[id].parameters[l]
          /\ w[id].id = orig[id].id
          /\ w[id].name = orig[id].name
          /\ w[id].description = orig[id].description
          /\ w[id].discussion = orig[id].discussion

NoMarker(body, b) ==
    \A i \in SharedAt(body) : body[i].cells[MarkerColumn(b)].content = <<>>

\* No row of the class of b at all.
NoDetailRow(body, b) ==
    \A i \in DOMAIN body : body[i].class # ParametersClass(b)

\* The rows of the class of b carry no cell: no label, no parameter text.
NoDetailCells(body, b) ==
    \A i \in DOMAIN body : body[i].class = ParametersClass(b) => body[i].cells = <<>>

\* The baseline a view of main leaves out.
LeftOut(name) == IF name = "high-moderate" THEN "Low" ELSE "High"

\* Some order of the keys of a view.
SomeKeyOrder(w) == CHOOSE keys \in KeyOrders(w) : TRUE

\* C8 as stated: without_baseline(b) keeps the identifiers, clears slot b,
\* leaves the rest and the original alone, and the layout of the result has
\* no presence marker for b and no detail row for b.
C8_FilterLeavesNoRow ==
    Merged =>
        /\ merged = merge_controls(baselines).controls
        /\ \A b \in Baselines :
              LET w == Controls_without_baseline(merged, b)
                  body == tabulate_controls(w, SomeKeyOrder(w)).body
              IN  FilterFrame(merged, w, b) /\ NoMarker(body, b) /\ NoDetailRow(body, b)
        /\ \A n \in DOMAIN tabs :
              n > 1 =>
                  /\ FilterFrame(merged, tabs[n].controls, LeftOut(tabs[n].name))
                  /\ NoMarker(tabs[n].table.body, LeftOut(tabs[n].name))
                  /\ NoDetailRow(tabs[n].table.body, LeftOut(tabs[n].name))

\* C8 amended: as stated, except that a record with distinct variation still
\* gets a row of the class of b, which carries no cell (neither the label of
\* b nor parameter text).
C8_FilterLeavesEmptyRow ==
    Merged =>
        /\ merged = merge_controls(baselines).controls
        /\ \A b \in Baselines :
              LET w == Controls_without_baseline(merged, b)
                  body == tabulate_controls(w, SomeKeyOrder(w)).body
              IN  FilterFrame(merged, w, b) /\ NoMarker(body, b) /\ NoDetailCells(body, b)
        /\ \A n \in DOMAIN tabs :
              n > 1 =>
                  /\ FilterFrame(merged, tabs[n].controls, LeftOut(tabs[n].name))
                  /\ NoMarker(tabs[n].table.body, LeftOut(tabs[n].name))
                  /\ NoDetailCells(tabs[n].table.body, LeftOut(tabs[n].name))

\* The High-Moderate view of a control whose Low slot was populated and whose
\* High and Moderate parameters differ: its Low row is there, without cells.
C8_Witness ==
    /\ pc = "done"
    /\ \E id \in DOMAIN merged :
          LET body == tabs[2].table.body
              i == RowOfId(body, id)
          IN  /\ IsSome(merged[id].parameters["Low"])
              /\ tabs[2].controls[id].parameters["Low"] = None
              /\ tabs[2].controls[id].parameters["High"] = merged[id].parameters["High"]
              /\ body[i].cells[MarkerColumn("Low")].content = <<>>
              /\ GroupLen(body, i) = 4
              /\ body[i + 3].class = ParametersClass("Low")
              /\ body[i + 3].cells = <<>>

\* The order of the claims: subject, then number, then subnumber, the numbers
\* as integers.
Before(a, b) ==
    \/ StrLess(a.subject, b.subject)
    \/ a.subject = b.subject /\ a.number < b.number
    \/ a.subject = b.subject /\ a.number = b.number /\ a.subnumber < b.subnumber

\* C9: the row groups come in strictly ascending ControlID order (AC-2
\* before AC-2 (1) before AC-10 before AU-1), and the table built from the
\* keys in whatever order the map iterated them is the one built from one
\* fixed order of the keys.
C9_AscendingOrder ==
    \A n \in DOMAIN tabs :
        LET t == tabs[n]
            body == t.table.body
        IN  /\ GroupsWellFormed(t)
            /\ \A a, b \in DOMAIN t.controls :
                  RowOfId(body, a) < RowOfId(body, b) => Before(a, b)
            /\ tabulate_controls(t.controls, SomeKeyOrder(t.controls)) = t.table

\* A table with AC-2, AC-2 (1) and AC-10, in that order.
C9_Witness ==
    /\ pc = "done"
    /\ LET body == tabs[1].table.body
       IN  /\ Len(body) >= 3
           /\ \E i, j, k \in SharedAt(body) :
                 /\ i < j /\ j < k
                 /\ body[i].cells[1].content = <<"A", "C", "-", "2">>
                 /\ body[j].cells[1].content = <<"A", "C", "-", "2", " ", "(", "1", ")">>
                 /\ body[k].cells[1].content = <<"A", "C", "-", "1", "0">>

====
